---- MODULE Spec2Model ----
(***************************************************************************)
(* Route optimisation of the Type-A-Itinerary backend.                     *)
(*                                                                         *)
(*   backend/app/services/route_optimizer.py  RouteOptimizer.solve_tsp,    *)
(*                                            RouteOptimizer._greedy_fallback *)
(*   backend/app/api/trips.py                 optimize_trip                *)
(*                                                                         *)
(* Timestamps are whole seconds since midnight; a stay duration is in      *)
(* minutes, a travel time (distance_matrix entry) in seconds.  A waypoint  *)
(* is referred to by its matrix node 1..N (Python list position + 1), node *)
(* 0 being the start location.  An unset column (None) is written 0: an    *)
(* order is at least 1 and a timestamp is at least start_time > 0.         *)
(*                                                                         *)
(* The OR-Tools routing solver is a library outside the repository. It is  *)
(* modelled by the model the code builds for it: one vehicle from node 0   *)
(* to its end node, the arc cost evaluator distance_callback on every arc  *)
(* of the route, and the dimension "Time". SolveWithParameters returns     *)
(* either nothing or a route of least arc cost among the feasible ones.    *)
(***************************************************************************)
EXTENDS Integers, Sequences, FiniteSets, TLC

\* ------------------------------------------------------------- bounds
MaxStops == 3
MaxTravel == 2
MaxDwell == 2

\* Seconds per matrix unit: travel times are 0, 45, 90, ... seconds.
TravelStep == 45

StartTimes == {32400}
Budgets == {3600, 32400}

VARIABLES
    waypoints,          \* the input Waypoint objects, by node 1..N
    distance_matrix,    \* [0..N -> [0..N -> Nat]]
    constraints,        \* [start_time, end_time, end_waypoint_id]
    pc,                 \* position in solve_tsp / _greedy_fallback / optimize_trip;
                        \* "call": solve_tsp is about to run, called directly or
                        \* by optimize_trip; "returned": it has returned
    path,               \* "none", "empty", "single", "solver" or "fallback"
    solution,           \* nodes of the solver's route from Start to before End
    end_node_index,     \* solve_tsp: node of the fixed end, 0 = None
    index,              \* solve_tsp: position in the solver's route
    route_order,        \* solve_tsp: next order to hand out
    current_time,       \* running timestamp of either path
    ordered_waypoints,  \* solve_tsp: nodes appended so far
    end_idx,            \* _greedy_fallback: node of the fixed end, 0 = None
    visited,            \* _greedy_fallback: [1..N -> BOOLEAN]
    ordered,            \* _greedy_fallback: nodes appended so far
    current_node,       \* _greedy_fallback: node the tour stands on
    order,              \* _greedy_fallback: loop counter
    result,             \* the returned list, as nodes (references to waypoints)
    trip,               \* [status, total_time_minutes] of the Trip row
    response,           \* optimize_trip's HTTP answer, 0 = none yet
    committed,          \* the database: [trip, waypoints] as last committed
    previous,           \* what the call before this one returned, <<>> = no such call
    other,              \* the frame of a second, suspended call, <<>> = no such call
    job,                \* the AnalysisJob row in the database, <<>> = no row
    task                \* process_images_background: its position and locals

vars == <<waypoints, distance_matrix, constraints, pc, path, solution,
          end_node_index, index, route_order, current_time, ordered_waypoints,
          end_idx, visited, ordered, current_node, order, result, trip, response,
          committed, previous, other, job, task>>

solver_locals == <<solution, end_node_index, index, route_order, ordered_waypoints>>
fallback_locals == <<end_idx, visited, ordered, current_node, order>>
\* the image analysis of POST /trip/upload
analysis_vars == <<job, task>>
\* what no statement of solve_tsp, _greedy_fallback or optimize_trip assigns:
\* the matrix, the constraints, and what belongs to another call or endpoint
inputs == <<distance_matrix, constraints, previous, other, analysis_vars>>
trip_vars == <<trip, response, committed>>

\* no upload was made: process_images_background is not scheduled. An image,
\* candidate or location list is held by its length
NoTask ==
    [pc |-> "idle", response |-> 0, image_bytes_list |-> 0, raw_candidates |-> 0,
     failed_images |-> 0, filtered_candidates |-> 0, all_candidates |-> 0,
     raised |-> ""]

N == Len(waypoints)
Nodes == 1..N

\* ------------------------------------------------------------- inputs
Waypoint(i, stay) ==
    [id |-> i, estimated_stay_duration |-> stay,
     order |-> 0, arrival_time |-> 0, departure_time |-> 0]

MatrixOf(n, a, b, c) ==
    [i \in 0..n |-> [j \in 0..n |->
        IF i = j THEN 0 ELSE ((a * i + b * j + c) % (MaxTravel + 1)) * TravelStep]]

\* up to two stops every matrix is an input; from three stops on, a family of
\* (MaxTravel + 1)^3 matrices, symmetric (a = b) and asymmetric
Matrices(n) ==
    IF n <= 2
    THEN {[i \in 0..n |-> [j \in 0..n |-> IF i = j THEN 0 ELSE m[<<i, j>>] * TravelStep]] :
            m \in [{<<i, j>> \in (0..n) \X (0..n) : i # j} -> 0..MaxTravel]}
    ELSE {MatrixOf(n, a, b, c) :
            a \in 0..MaxTravel, b \in 0..MaxTravel, c \in 0..MaxTravel}

\* a stay of 0 minutes, or of MaxDwell minutes
Dwells == {0, MaxDwell}

WaypointLists(n) ==
    {[i \in 1..n |-> Waypoint(i, stay[i])] : stay \in [1..n -> Dwells]}

\* id n + 1 is the id of no supplied waypoint
EndIds(n) == 0..(n + 1)

Init ==
    /\ \E n \in 0..MaxStops :
        /\ waypoints \in WaypointLists(n)
        /\ distance_matrix \in Matrices(n)
        /\ \E st \in StartTimes, budget \in Budgets, e \in EndIds(n) :
             constraints = [start_time |-> st, end_time |-> st + budget,
                            end_waypoint_id |-> e]
    /\ pc = "call"
    /\ path = "none"
    /\ solution = <<>>
    /\ end_node_index = 0
    /\ index = 0
    /\ route_order = 0
    /\ current_time = 0
    /\ ordered_waypoints = <<>>
    /\ end_idx = 0
    /\ visited = <<>>
    /\ ordered = <<>>
    /\ current_node = 0
    /\ order = 0
    /\ result = <<>>
    /\ trip = [status |-> "draft", total_time_minutes |-> 0]
    /\ response = 0
    /\ committed = [trip |-> trip, waypoints |-> waypoints]
    /\ job = <<>>
    /\ task = NoTask
    /\ previous = <<>>
    /\ other = <<>>

\* ------------------------------------------------------------- helpers
\* timedelta(minutes=wp.estimated_stay_duration or 60), in seconds
StayMinutes(wp) ==
    IF wp.estimated_stay_duration = 0 THEN 60 ELSE wp.estimated_stay_duration

StaySeconds(wp) == StayMinutes(wp) * 60

\* variant: the list position is taken for the node (i instead of i + 1), so
\* that the first waypoint is never found
FindEndByPosition(wps, id) ==
    IF id # 0 /\ \E i \in 1..Len(wps) : wps[i].id = id
    THEN (CHOOSE i \in 1..Len(wps) :
            /\ wps[i].id = id
            /\ \A j \in 1..Len(wps) : wps[j].id = id => i <= j) - 1
    ELSE 0

\* the lookup loop of solve_tsp and of _greedy_fallback: the node of the first
\* waypoint whose id is end_waypoint_id, 0 (None) when there is none or no id
FindEnd(wps, id) ==
    IF id # 0 /\ \E i \in 1..Len(wps) : wps[i].id = id
    THEN CHOOSE i \in 1..Len(wps) :
            /\ wps[i].id = id
            /\ \A j \in 1..Len(wps) : wps[j].id = id => i <= j
    ELSE 0

RECURSIVE SumSeq(_)
SumSeq(s) == IF s = <<>> THEN 0 ELSE Head(s) + SumSeq(Tail(s))

\* ------------------------------------------------------------- the routing model
Perms(S) ==
    {p \in [1..Cardinality(S) -> S] : \A i, j \in 1..Cardinality(S) : p[i] = p[j] => i = j}

\* The routes of the one vehicle: Start (node 0), then every other node that is
\* not the vehicle's end, in some order. RoutingIndexManager(num_locations, 1, 0)
\* ends the vehicle at the depot, node 0 (end = 0), and
\* RoutingIndexManager(num_locations, 1, [0], [end_node_index]) at the end node.
Routes(end) == {<<0>> \o p : p \in Perms(Nodes \ {end})}

\* the node after position k of a route: the vehicle's end node after the last
NextNode(route, end, k) == IF k < Len(route) THEN route[k + 1] ELSE end

\* variant: distance_callback adds the stay at the node the arc leaves
ArcCostWithStay(route, end) ==
    SumSeq([k \in 1..Len(route) |->
              distance_matrix[route[k]][NextNode(route, end, k)]
              + (IF route[k] = 0 THEN 0 ELSE StaySeconds(waypoints[route[k]]))])

\* distance_callback summed over every arc of the route, the arc into End included
ArcCost(route, end) ==
    SumSeq([k \in 1..Len(route) |-> distance_matrix[route[k]][NextNode(route, end, k)]])

\* Dimension "Time": cumul(next) = cumul + transit + slack, every cumul within
\* 0..total_available_seconds; the slack of a waypoint on the route is fixed to
\* its stay, the slack of Start is free (at least 0).
TotalAvailableSeconds == constraints.end_time - constraints.start_time

RouteSlack(route) ==
    SumSeq([k \in 1..Len(route) |->
        IF route[k] = 0 THEN 0 ELSE StaySeconds(waypoints[route[k]])])

\* variant: the slack of the waypoints is left free, so that only the travel
\* has to fit
FeasibleIgnoringStays(route, end) == ArcCost(route, end) <= TotalAvailableSeconds

Feasible(route, end) == ArcCost(route, end) + RouteSlack(route) <= TotalAvailableSeconds

FeasibleRoutes(end) == {r \in Routes(end) : Feasible(r, end)}

\* what SolveWithParameters can return as a solution
Solutions(end) ==
    {r \in FeasibleRoutes(end) :
        \A q \in FeasibleRoutes(end) : ArcCost(r, end) <= ArcCost(q, end)}

\* routing.IsEnd(index), index being a position in the solution
IsEnd(k) == k > Len(solution)

\* variant: the departure is computed from the arrival the waypoint still
\* carries, before the new arrival is assigned
SingleVisitFromOldArrival(wp, cons) ==
    [wp EXCEPT !.order = 1,
               !.arrival_time = cons.start_time,
               !.departure_time = wp.arrival_time + StayMinutes(wp) * 60]

\* ------------------------------------------------------------- solve_tsp
\* the writes of the single-waypoint branch
SingleVisit(wp, cons) ==
    [wp EXCEPT !.order = 1,
               !.arrival_time = cons.start_time,
               !.departure_time = cons.start_time + StayMinutes(wp) * 60]

\* mutant of ExtractVisit: the defaulted stay is stored back on the waypoint
ExtractVisitStoringStay(wp, ord, now) ==
    [wp EXCEPT !.order = ord,
               !.arrival_time = now,
               !.departure_time = now + StayMinutes(wp) * 60,
               !.estimated_stay_duration = StayMinutes(wp)]

\* the writes of the extraction loop on a waypoint node
ExtractVisit(wp, ord, now) ==
    [wp EXCEPT !.order = ord,
               !.arrival_time = now,
               !.departure_time = now + StayMinutes(wp) * 60]

\* mutant of ExtractTravel: the matrix is read as [to_node][from_node]
ExtractTravelTransposed(now, from_node, k) ==
    IF IsEnd(k) THEN now ELSE now + distance_matrix[solution[k]][from_node]

\* "Add travel time" at the end of a loop pass: nothing when the next index is End
ExtractTravel(now, from_node, k) ==
    IF IsEnd(k) THEN now ELSE now + distance_matrix[from_node][solution[k]]

\* variant: no travel is added before the fixed end is appended
EndTravelOmitted(now, appended, end) == now

\* the travel added before the fixed end is appended after the loop
EndTravel(now, appended, end) ==
    IF appended # <<>> THEN now + distance_matrix[appended[Len(appended)]][end] ELSE now

\* variant: the fixed end repeats the order of the stop before it
ExtractEndVisitRepeatingOrder(wp, ord, now) ==
    [wp EXCEPT !.order = ord - 1,
               !.arrival_time = now,
               !.departure_time = now + StayMinutes(wp) * 60]

\* the writes on the fixed end appended after the loop
ExtractEndVisit(wp, ord, now) ==
    [wp EXCEPT !.order = ord,
               !.arrival_time = now,
               !.departure_time = now + StayMinutes(wp) * 60]

InSeq(x, s) == \E k \in 1..Len(s) : s[k] = x

\* variant: the start location is returned as if it were a stop
solve_tsp_empty_returning_start ==
    /\ pc = "call"
    /\ N = 0
    /\ result' = <<0>>
    /\ path' = "empty"
    /\ pc' = "returned"
    /\ UNCHANGED <<waypoints, inputs, solver_locals, fallback_locals, current_time, trip_vars>>

solve_tsp_empty ==
    /\ pc = "call"
    /\ N = 0
    /\ result' = <<>>
    /\ path' = "empty"
    /\ pc' = "returned"
    /\ UNCHANGED <<waypoints, current_time, inputs, solver_locals, fallback_locals, trip_vars>>

solve_tsp_single ==
    /\ pc = "call"
    /\ N = 1
    /\ waypoints' = [waypoints EXCEPT ![1] = SingleVisit(waypoints[1], constraints)]
    /\ result' = <<1>>
    /\ path' = "single"
    /\ pc' = "returned"
    /\ UNCHANGED <<current_time, inputs, solver_locals, fallback_locals, trip_vars>>

\* the solver returns a solution: set up the extraction loop
solve_tsp_solution ==
    /\ pc = "call"
    /\ N >= 2
    /\ LET end == FindEnd(waypoints, constraints.end_waypoint_id)
       IN  /\ end_node_index' = end
           /\ \E r \in Solutions(end) : solution' = r
    /\ ordered_waypoints' = <<>>
    /\ index' = 1
    /\ route_order' = 1
    /\ current_time' = constraints.start_time
    /\ path' = "solver"
    /\ pc' = "extract"
    /\ UNCHANGED <<waypoints, result, inputs, fallback_locals, trip_vars>>

\* the solver returns nothing (no feasible route, or none found in time)
solve_tsp_no_solution ==
    /\ pc = "call"
    /\ N >= 2
    /\ end_node_index' = FindEnd(waypoints, constraints.end_waypoint_id)
    /\ path' = "fallback"
    /\ pc' = "greedy_fallback"
    /\ UNCHANGED <<waypoints, result, current_time, inputs, solution, index, route_order,
                   ordered_waypoints, fallback_locals, trip_vars>>

\* one pass of "while not routing.IsEnd(index)"
extract_step ==
    /\ pc = "extract"
    /\ ~IsEnd(index)
    /\ LET node == solution[index]
           wp == ExtractVisit(waypoints[node], route_order, current_time)
       IN  IF node > 0
           THEN /\ waypoints' = [waypoints EXCEPT ![node] = wp]
                /\ ordered_waypoints' = Append(ordered_waypoints, node)
                /\ route_order' = route_order + 1
                /\ current_time' = ExtractTravel(wp.departure_time, node, index + 1)
           ELSE /\ current_time' = ExtractTravel(current_time, node, index + 1)
                /\ UNCHANGED <<waypoints, ordered_waypoints, route_order>>
    /\ index' = index + 1
    /\ UNCHANGED <<pc, path, result, inputs, solution, end_node_index, fallback_locals,
                   trip_vars>>

\* after the loop: append the fixed end if there is one, and return
extract_end ==
    /\ pc = "extract"
    /\ IsEnd(index)
    /\ IF end_node_index # 0 /\ ~InSeq(end_node_index, ordered_waypoints)
       THEN LET now == EndTravel(current_time, ordered_waypoints, end_node_index)
            IN  /\ current_time' = now
                /\ waypoints' = [waypoints EXCEPT ![end_node_index] =
                        ExtractEndVisit(waypoints[end_node_index], route_order, now)]
                /\ ordered_waypoints' = Append(ordered_waypoints, end_node_index)
       ELSE UNCHANGED <<current_time, waypoints, ordered_waypoints>>
    /\ result' = ordered_waypoints'
    /\ pc' = "returned"
    /\ UNCHANGED <<path, inputs, solution, end_node_index, index, route_order,
                   fallback_locals, trip_vars>>

\* ------------------------------------------------------------- _greedy_fallback
\* variant: "distance <= best_distance", so the last of several nearest
\* waypoints is kept
NearestLastOnTie(vis, cur) ==
    LET open == {i \in DOMAIN vis : ~vis[i]}
    IN  IF open = {} THEN 0
        ELSE CHOOSE i \in open :
                \A j \in open :
                    \/ distance_matrix[cur][i] < distance_matrix[cur][j]
                    \/ distance_matrix[cur][i] = distance_matrix[cur][j] /\ i >= j

\* mutant of NearestUnvisited: the "if not visited[i]" test is lost
NearestIgnoringVisited(vis, cur) ==
    CHOOSE i \in DOMAIN vis :
        /\ i # cur
        /\ \A j \in DOMAIN vis \ {cur} :
              \/ distance_matrix[cur][i] < distance_matrix[cur][j]
              \/ distance_matrix[cur][i] = distance_matrix[cur][j] /\ i <= j

\* the inner loop: the unvisited node of least distance_matrix[current_node][node],
\* the first such in list order (strict <); 0 stands for best_idx == -1
NearestUnvisited(vis, cur) ==
    LET open == {i \in DOMAIN vis : ~vis[i]}
    IN  IF open = {} THEN 0
        ELSE CHOOSE i \in open :
                \A j \in open :
                    \/ distance_matrix[cur][i] < distance_matrix[cur][j]
                    \/ distance_matrix[cur][i] = distance_matrix[cur][j] /\ i <= j

\* variant: the reserved end is not taken off the number of passes
NumToVisitCountingEnd(wps, end) == Len(wps)

\* mutant of NumToVisit: one waypoint is held back even when no end is fixed
NumToVisitAlwaysReserving(wps, end) == Len(wps) - 1

NumToVisit(wps, end) == Len(wps) - (IF end # 0 THEN 1 ELSE 0)

\* variant: a departure is cut off at the end of the trip
GreedyVisitClamped(wp, ord, now) ==
    [wp EXCEPT !.order = ord,
               !.arrival_time = now,
               !.departure_time =
                   IF now + StayMinutes(wp) * 60 > constraints.end_time
                   THEN constraints.end_time
                   ELSE now + StayMinutes(wp) * 60]

\* the writes of the loop on the selected waypoint; now includes the travel
GreedyVisit(wp, ord, now) ==
    [wp EXCEPT !.order = ord,
               !.arrival_time = now,
               !.departure_time = now + StayMinutes(wp) * 60]

\* mutant of GreedyEndVisit: the end's order is len(ordered), not len(ordered) + 1
GreedyEndVisitOffByOne(wp, appended, now) ==
    [wp EXCEPT !.order = Len(appended),
               !.arrival_time = now,
               !.departure_time = now + StayMinutes(wp) * 60]

\* the writes on the fixed end appended after the loop
GreedyEndVisit(wp, appended, now) ==
    [wp EXCEPT !.order = Len(appended) + 1,
               !.arrival_time = now,
               !.departure_time = now + StayMinutes(wp) * 60]

\* mutant of GreedyTravel: the travel time is subtracted
GreedyTravelSubtracted(now, from_node, to_node) == now - distance_matrix[from_node][to_node]

\* "Add travel time" of the loop and of the end append
GreedyTravel(now, from_node, to_node) == now + distance_matrix[from_node][to_node]

\* variant: the fallback is called without end_waypoint_id, which then is None
greedy_fallback_begin_without_end ==
    /\ pc = "greedy_fallback"
    /\ end_idx' = 0
    /\ visited' = [i \in Nodes |-> FALSE]
    /\ ordered' = <<>>
    /\ current_node' = 0
    /\ current_time' = constraints.start_time
    /\ order' = 1
    /\ pc' = "greedy_loop"
    /\ UNCHANGED <<waypoints, path, result, inputs, solver_locals, trip_vars>>

greedy_fallback_begin ==
    /\ pc = "greedy_fallback"
    /\ LET end == FindEnd(waypoints, constraints.end_waypoint_id)
       IN  /\ end_idx' = end
           /\ visited' = [i \in Nodes |-> i = end]
    /\ ordered' = <<>>
    /\ current_node' = 0
    /\ current_time' = constraints.start_time
    /\ order' = 1
    /\ pc' = "greedy_loop"
    /\ UNCHANGED <<waypoints, path, result, inputs, solver_locals, trip_vars>>

\* one pass of "for order in range(1, num_to_visit + 1)" that visits a waypoint
greedy_fallback_step ==
    /\ pc = "greedy_loop"
    /\ order <= NumToVisit(waypoints, end_idx)
    /\ LET best_idx == NearestUnvisited(visited, current_node)
           now == GreedyTravel(current_time, current_node, best_idx)
           wp == GreedyVisit(waypoints[best_idx], order, now)
       IN  /\ best_idx # 0
           /\ visited' = [visited EXCEPT ![best_idx] = TRUE]
           /\ waypoints' = [waypoints EXCEPT ![best_idx] = wp]
           /\ ordered' = Append(ordered, best_idx)
           /\ current_time' = wp.departure_time
           /\ current_node' = best_idx
    /\ order' = order + 1
    /\ UNCHANGED <<pc, path, result, inputs, end_idx, solver_locals, trip_vars>>

\* the loop is over (range exhausted, or break on best_idx == -1): append the
\* fixed end if there is one, and return
greedy_fallback_end ==
    /\ pc = "greedy_loop"
    /\ \/ order > NumToVisit(waypoints, end_idx)
       \/ NearestUnvisited(visited, current_node) = 0
    /\ IF end_idx # 0
       THEN LET now == GreedyTravel(current_time, current_node, end_idx)
            IN  /\ current_time' = now
                /\ waypoints' = [waypoints EXCEPT ![end_idx] =
                        GreedyEndVisit(waypoints[end_idx], ordered, now)]
                /\ ordered' = Append(ordered, end_idx)
       ELSE UNCHANGED <<current_time, waypoints, ordered>>
    /\ result' = ordered'
    /\ pc' = "returned"
    /\ UNCHANGED <<path, inputs, end_idx, visited, current_node, order, solver_locals,
                   trip_vars>>

\* ------------------------------------------------------------- optimize_trip
\* "Calculate total time": the sum over the returned waypoints of
\* (departure_time - arrival_time).total_seconds() / 60, truncated by int()
TotalMinutes(wps, res) ==
    SumSeq([k \in 1..Len(res) |->
        wps[res[k]].departure_time - wps[res[k]].arrival_time]) \div 60

\* optimize_trip is the caller and finds fewer than 2 waypoints: HTTP 400
optimize_trip_too_few ==
    /\ pc = "call"
    /\ N < 2
    /\ response' = 400
    /\ pc' = "responded"
    /\ UNCHANGED <<waypoints, path, result, current_time, inputs, solver_locals,
                   fallback_locals, trip, committed>>

\* the caller was optimize_trip (it calls with 2 waypoints or more): update the
\* trip, commit and answer
optimize_trip_commit ==
    /\ pc = "returned"
    /\ N >= 2
    /\ IF result = <<>>
       THEN /\ response' = 500
            /\ UNCHANGED <<trip, committed>>
       ELSE /\ trip' = [status |-> "optimized",
                        total_time_minutes |-> TotalMinutes(waypoints, result)]
            /\ committed' = [trip |-> trip', waypoints |-> waypoints]
            /\ response' = 200
    /\ pc' = "responded"
    /\ UNCHANGED <<waypoints, path, result, current_time, inputs, solver_locals,
                   fallback_locals>>

Next ==
    \/ solve_tsp_empty
    \/ solve_tsp_single
    \/ solve_tsp_solution
    \/ solve_tsp_no_solution
    \/ extract_step
    \/ extract_end
    \/ greedy_fallback_begin
    \/ greedy_fallback_step
    \/ greedy_fallback_end
    \/ optimize_trip_too_few
    \/ optimize_trip_commit

Spec == Init /\ [][Next]_vars

\* the same program on the inputs whose stops all have a stay of at least a minute
InitStay == Init /\ \A i \in Nodes : waypoints[i].estimated_stay_duration > 0

SpecStay == InitStay /\ [][Next]_vars

\* solve_tsp is about to run: no local is set, nothing is returned, the trip
\* row is a draft and optimize_trip has not answered
Called ==
    /\ pc = "call"
    /\ path = "none"
    /\ solution = <<>>
    /\ end_node_index = 0
    /\ index = 0
    /\ route_order = 0
    /\ current_time = 0
    /\ ordered_waypoints = <<>>
    /\ end_idx = 0
    /\ visited = <<>>
    /\ ordered = <<>>
    /\ current_node = 0
    /\ order = 0
    /\ result = <<>>
    /\ trip = [status |-> "draft", total_time_minutes |-> 0]
    /\ response = 0
    /\ committed = [trip |-> trip, waypoints |-> waypoints]
    /\ job = <<>>
    /\ task = NoTask
    /\ previous = <<>>
    /\ other = <<>>

\* len(distance_matrix); solve_tsp never compares it with len(waypoints) + 1
MatrixDim == Cardinality(DOMAIN distance_matrix)

\* the same program when the caller's matrix may have any dimension. With at
\* most one stop solve_tsp never reads the matrix, and every dimension from
\* 1x1 to 3x3 is an input; from two stops on the matrix is handed to the
\* routing library, and only the (N+1)x(N+1) inputs of Init are kept.
InitAnyShape ==
    /\ \E n \in 0..MaxStops :
        /\ waypoints \in WaypointLists(n)
        /\ \E dim \in (IF n <= 1 THEN 1..3 ELSE {n + 1}) :
             distance_matrix \in Matrices(dim - 1)
        /\ \E st \in StartTimes, budget \in Budgets, e \in EndIds(n) :
             constraints = [start_time |-> st, end_time |-> st + budget,
                            end_waypoint_id |-> e]
    /\ Called

SpecAnyShape == InitAnyShape /\ [][Next]_vars

\* the line of stops of the test scenario: the start at position 0 and stop i
\* at 10 * i seconds from it, so that a travel between two nodes takes 10
\* seconds per position
LineMatrix(n) ==
    [i \in 0..n |-> [j \in 0..n |-> 10 * (IF i < j THEN j - i ELSE i - j)]]

\* the same program on the line, for every number of stops, stay, budget and
\* end_waypoint_id of Init
InitLine ==
    /\ \E n \in 0..MaxStops :
        /\ waypoints \in WaypointLists(n)
        /\ distance_matrix = LineMatrix(n)
        /\ \E st \in StartTimes, budget \in Budgets, e \in EndIds(n) :
             constraints = [start_time |-> st, end_time |-> st + budget,
                            end_waypoint_id |-> e]
    /\ Called

SpecLine == InitLine /\ [][Next]_vars

\* the node end_waypoint_id stands for, 0 when for none
FixedEnd == FindEnd(waypoints, constraints.end_waypoint_id)

\* every route of the routing model fits the time dimension
AllFeasible == FeasibleRoutes(FixedEnd) = Routes(FixedEnd)

\* the inputs leave the solver one outcome: one least-cost feasible route on
\* the solver path, no feasible route at all on the fallback path
SolverForced ==
    \/ path \in {"empty", "single"}
    \/ path = "solver" /\ Cardinality(Solutions(FixedEnd)) = 1
    \/ path = "fallback" /\ FeasibleRoutes(FixedEnd) = {}

\* solve_tsp is called a second time for the same trip, on the same Waypoint
\* objects (they carry the schedule the first call wrote), the same matrix and
\* the same constraints; the stays are set to one value, the one they had or
\* another one
call_again ==
    /\ pc = "returned"
    /\ previous = <<>>
    /\ previous' = [result |-> result, waypoints |-> waypoints, path |-> path,
                    solution |-> solution, forced |-> SolverForced,
                    all_feasible |-> (N >= 2 /\ AllFeasible),
                    cost |-> IF path = "solver" THEN ArcCost(solution, end_node_index)
                                                ELSE 0]
    /\ \E stay \in Dwells :
         waypoints' = [i \in 1..N |->
                         [waypoints[i] EXCEPT !.estimated_stay_duration = stay]]
    /\ pc' = "call"
    /\ path' = "none"
    /\ solution' = <<>>
    /\ end_node_index' = 0
    /\ index' = 0
    /\ route_order' = 0
    /\ current_time' = 0
    /\ ordered_waypoints' = <<>>
    /\ end_idx' = 0
    /\ visited' = <<>>
    /\ ordered' = <<>>
    /\ current_node' = 0
    /\ order' = 0
    /\ result' = <<>>
    /\ UNCHANGED <<distance_matrix, constraints, other, trip_vars, analysis_vars>>

\* solve_tsp from its entry to its return
solve_tsp ==
    \/ solve_tsp_empty
    \/ solve_tsp_single
    \/ solve_tsp_solution
    \/ solve_tsp_no_solution
    \/ extract_step
    \/ extract_end
    \/ greedy_fallback_begin
    \/ greedy_fallback_step
    \/ greedy_fallback_end

NextTwice ==
    \/ solve_tsp
    \/ call_again

\* two calls in a row, on the matrices of the seeded family with offset 1 and
\* on stops that all have the same stay
InitTwice ==
    /\ Init
    /\ \A i \in Nodes, j \in Nodes :
         waypoints[i].estimated_stay_duration = waypoints[j].estimated_stay_duration
    /\ \E a \in 0..MaxTravel, b \in 0..MaxTravel :
         distance_matrix = MatrixOf(N, a, b, 1)

SpecTwice == InitTwice /\ [][NextTwice]_vars

\* budgets that the time dimension decides on: the stays of all stops plus a
\* number of matrix units of travel, so that some routes fit and others do not
TightBudgets(wps) ==
    {SumSeq([i \in 1..Len(wps) |-> StaySeconds(wps[i])]) + t * TravelStep :
        t \in 1..((Len(wps) + 1) * MaxTravel)}

\* the same program under tight budgets, on the matrices of the seeded family
\* and on stops that all have the same stay
InitTight ==
    /\ \E n \in 0..MaxStops, stay \in Dwells :
        /\ waypoints = [i \in 1..n |-> Waypoint(i, stay)]
        /\ \E a \in 0..MaxTravel, b \in 0..MaxTravel, c \in 0..MaxTravel :
             distance_matrix = MatrixOf(n, a, b, c)
        /\ \E st \in StartTimes, budget \in TightBudgets(waypoints), e \in EndIds(n) :
             constraints = [start_time |-> st, end_time |-> st + budget,
                            end_waypoint_id |-> e]
    /\ Called

SpecTight == InitTight /\ [][Next]_vars

\* the arguments and local variables of one call of solve_tsp
CallState ==
    [waypoints |-> waypoints, distance_matrix |-> distance_matrix,
     constraints |-> constraints, pc |-> pc, path |-> path, solution |-> solution,
     end_node_index |-> end_node_index, index |-> index, route_order |-> route_order,
     current_time |-> current_time, ordered_waypoints |-> ordered_waypoints,
     end_idx |-> end_idx, visited |-> visited, ordered |-> ordered,
     current_node |-> current_node, order |-> order, result |-> result]

\* variant: the running timestamp is kept on the RouteOptimizer instance
\* (self.current_time), which every call shares
LocalsButClock ==
    {"waypoints", "distance_matrix", "constraints", "pc", "path", "solution",
     "end_node_index", "index", "route_order", "ordered_waypoints",
     "end_idx", "visited", "ordered", "current_node", "order", "result"}

\* the names a call has for itself: every name solve_tsp and _greedy_fallback
\* assign is a parameter or a local variable; RouteOptimizer has no attribute
\* and the module no global but the instance route_optimizer itself
Locals ==
    {"waypoints", "distance_matrix", "constraints", "pc", "path", "solution",
     "end_node_index", "index", "route_order", "current_time", "ordered_waypoints",
     "end_idx", "visited", "ordered", "current_node", "order", "result"}

\* what a name holds once the other call runs: its own value of a local, the
\* one value there is of anything shared
Switched(name, theirs, mine) == IF name \in Locals THEN theirs ELSE mine

\* the running call is suspended and the other call runs on (two requests
\* served by the one route_optimizer instance)
context_switch ==
    /\ other # <<>>
    /\ other' = [f \in DOMAIN CallState |-> Switched(f, CallState[f], other[f])]
    /\ waypoints' = Switched("waypoints", other.waypoints, waypoints)
    /\ distance_matrix' = Switched("distance_matrix", other.distance_matrix, distance_matrix)
    /\ constraints' = Switched("constraints", other.constraints, constraints)
    /\ pc' = Switched("pc", other.pc, pc)
    /\ path' = Switched("path", other.path, path)
    /\ solution' = Switched("solution", other.solution, solution)
    /\ end_node_index' = Switched("end_node_index", other.end_node_index, end_node_index)
    /\ index' = Switched("index", other.index, index)
    /\ route_order' = Switched("route_order", other.route_order, route_order)
    /\ current_time' = Switched("current_time", other.current_time, current_time)
    /\ ordered_waypoints' = Switched("ordered_waypoints", other.ordered_waypoints, ordered_waypoints)
    /\ end_idx' = Switched("end_idx", other.end_idx, end_idx)
    /\ visited' = Switched("visited", other.visited, visited)
    /\ ordered' = Switched("ordered", other.ordered, ordered)
    /\ current_node' = Switched("current_node", other.current_node, current_node)
    /\ order' = Switched("order", other.order, order)
    /\ result' = Switched("result", other.result, result)
    /\ UNCHANGED <<previous, trip_vars, analysis_vars>>

NextConcurrent ==
    \/ solve_tsp
    \/ context_switch

\* two calls on separate stop lists: one on the line, for every number of
\* stops, budget and end_waypoint_id and one stay for all stops; the other on
\* two stops of its own on the line, about to start
InitConcurrent ==
    /\ \E n \in 0..MaxStops, stay \in Dwells :
        /\ waypoints = [i \in 1..n |-> Waypoint(i, stay)]
        /\ distance_matrix = LineMatrix(n)
        /\ \E st \in StartTimes, budget \in Budgets, e \in EndIds(n) :
             constraints = [start_time |-> st, end_time |-> st + budget,
                            end_waypoint_id |-> e]
    /\ pc = "call"
    /\ path = "none"
    /\ solution = <<>>
    /\ end_node_index = 0
    /\ index = 0
    /\ route_order = 0
    /\ current_time = 0
    /\ ordered_waypoints = <<>>
    /\ end_idx = 0
    /\ visited = <<>>
    /\ ordered = <<>>
    /\ current_node = 0
    /\ order = 0
    /\ result = <<>>
    /\ trip = [status |-> "draft", total_time_minutes |-> 0]
    /\ response = 0
    /\ committed = [trip |-> trip, waypoints |-> waypoints]
    /\ job = <<>>
    /\ task = NoTask
    /\ previous = <<>>
    /\ \E st \in StartTimes, budget \in Budgets, e \in 0..1 :
         other = [waypoints |-> [i \in 1..2 |-> Waypoint(i, MaxDwell)],
                  distance_matrix |-> LineMatrix(2),
                  constraints |-> [start_time |-> st, end_time |-> st + budget,
                                   end_waypoint_id |-> e],
                  pc |-> "call", path |-> "none", solution |-> <<>>,
                  end_node_index |-> 0, index |-> 0, route_order |-> 0,
                  current_time |-> 0, ordered_waypoints |-> <<>>,
                  end_idx |-> 0, visited |-> <<>>, ordered |-> <<>>,
                  current_node |-> 0, order |-> 0, result |-> <<>>]

SpecConcurrent == InitConcurrent /\ [][NextConcurrent]_vars

\* ------------------------------------------------------------- properties
\* solve_tsp has returned a list to its caller
Returned == pc \in {"returned", "responded"} /\ path # "none"

Arrival(k) == waypoints[result[k]].arrival_time
Departure(k) == waypoints[result[k]].departure_time

\* C1: the returned list holds every input stop exactly once, on every path
\* (empty, single, solver extraction, fallback), with or without a fixed end.
C1_Permutation ==
    Returned =>
        /\ Len(result) = N
        /\ \A i \in Nodes : Cardinality({k \in 1..Len(result) : result[k] = i}) = 1

C1_Witness ==
    /\ pc = "returned"
    /\ path = "solver"
    /\ N = 3
    /\ end_node_index = 2
    /\ result = <<3, 1, 2>>

\* C2: when end_waypoint_id identifies an input stop, that stop is the last
\* element of the returned list and its order is N.
C2_FixedEndLast ==
    (Returned /\ FixedEnd # 0) =>
        /\ Len(result) = N
        /\ result[N] = FixedEnd
        /\ waypoints[FixedEnd].order = N

C2_Witness ==
    /\ pc = "returned"
    /\ path = "fallback"
    /\ N = 3
    /\ FixedEnd = 1
    /\ result[3] = 1
    /\ distance_matrix[0][1] < distance_matrix[0][2]

\* C3: for N >= 2 the first stop's arrival is start_time + matrix[0][first] and
\* every later arrival is the previous departure + matrix[previous][current].
C3_ArrivalChain ==
    (Returned /\ N >= 2) =>
        /\ Arrival(1) = constraints.start_time + distance_matrix[0][result[1]]
        /\ \A k \in 2..Len(result) :
              Arrival(k) = Departure(k - 1) + distance_matrix[result[k - 1]][result[k]]

C3_Witness ==
    /\ pc = "returned"
    /\ path = "solver"
    /\ N = 3
    /\ end_node_index # 0
    /\ distance_matrix[result[2]][result[3]] # distance_matrix[result[3]][result[2]]
    /\ distance_matrix[0][result[1]] > 0

\* C4: for every scheduled stop departure - arrival is the stop's own dwell in
\* minutes, a dwell of 0 minutes included.
C4_DwellExact ==
    Returned =>
        \A k \in 1..Len(result) :
            Departure(k) - Arrival(k) = waypoints[result[k]].estimated_stay_duration * 60

\* C5: for consecutive stops of the returned schedule, departure[i] <= arrival[i+1].
C5_Monotonic ==
    Returned =>
        \A k \in 1..(Len(result) - 1) : Departure(k) <= Arrival(k + 1)

C5_Witness ==
    /\ pc = "returned"
    /\ N = 3
    /\ Len(result) = 3
    /\ Departure(1) < Arrival(2)
    /\ Departure(2) = Arrival(3)

\* the travel cost of an open tour: the arcs between consecutive nodes of the
\* route, without any arc after its last node
OpenCost(route) ==
    SumSeq([k \in 1..(Len(route) - 1) |-> distance_matrix[route[k]][route[k + 1]]])

\* C6: with no fixed end the ordering the solver returns has the least open-tour
\* cost matrix[0][s1] + sum matrix[s_i][s_(i+1)] over all permutations of the
\* stops, the arc from the last stop back to the origin not counted. Stated for
\* the inputs on which every ordering fits the time budget and the solver's
\* answer is determined (one route of least arc cost), so that neither the budget
\* nor a choice among equal routes decides it.
C6_OpenTourOptimal ==
    (/\ pc = "extract"
     /\ end_node_index = 0
     /\ FeasibleRoutes(0) = Routes(0)
     /\ Cardinality(Solutions(0)) = 1) =>
        \A q \in Routes(0) : OpenCost(solution) <= OpenCost(q)

CompleteTour ==
    /\ Len(result) = N
    /\ {result[k] : k \in 1..Len(result)} = Nodes

\* a step solve_tsp can take whatever the solver does: the special cases, the
\* switch to the fallback, the extraction of a solution and the fallback itself
SolveTspStep ==
    \/ solve_tsp_empty
    \/ solve_tsp_single
    \/ solve_tsp_no_solution
    \/ extract_step
    \/ extract_end
    \/ greedy_fallback_begin
    \/ greedy_fallback_step
    \/ greedy_fallback_end

\* C7: for every valid input solve_tsp comes to return a complete tour; when the
\* solver yields nothing the fallback's tour is returned and the caller is
\* answered as for a solver solution, never with an error.
C7_FailureAbsorbed ==
    /\ pc \in {"call", "extract", "greedy_fallback", "greedy_loop"}
          => ENABLED SolveTspStep
    /\ (Returned /\ path = "fallback") => CompleteTour
    /\ (pc = "responded" /\ path = "fallback") => response = 200

C7_Witness ==
    /\ pc = "responded"
    /\ path = "fallback"
    /\ N = 3
    /\ FixedEnd = 0
    /\ FeasibleRoutes(0) = {}
    /\ response = 200
    /\ Len(result) = 3

\* C8: with exactly one stop the result is that stop with order 1, arrival =
\* start_time + matrix[0][1] and departure = arrival + the stop's dwell minutes.
C8_SingleStop ==
    (Returned /\ N = 1) =>
        /\ result = <<1>>
        /\ waypoints[1].order = 1
        /\ waypoints[1].arrival_time = constraints.start_time + distance_matrix[0][1]
        /\ waypoints[1].departure_time =
              waypoints[1].arrival_time + waypoints[1].estimated_stay_duration * 60

\* C9: the total duration reported for an optimized route is the last stop's
\* departure minus the trip start time (in whole minutes, as it is stored).
C9_TotalDuration ==
    (pc = "responded" /\ response = 200) =>
        trip.total_time_minutes =
            (Departure(Len(result)) - constraints.start_time) \div 60

\* C10 as stated: after a call every input stop's order, arrival_time and
\* departure_time hold the values they had before the call (unset).
C10_InputsUntouched ==
    Returned =>
        \A i \in Nodes :
            /\ waypoints[i].order = 0
            /\ waypoints[i].arrival_time = 0
            /\ waypoints[i].departure_time = 0

\* C10 as amended: solve_tsp and _greedy_fallback write order, arrival_time and
\* departure_time on the input stops themselves and nothing else: no step
\* changes the number of stops, a stop's id or its estimated stay duration.
C10_OnlyScheduleWritten ==
    [][/\ Len(waypoints') = Len(waypoints)
       /\ \A i \in Nodes :
            /\ waypoints'[i].id = waypoints[i].id
            /\ waypoints'[i].estimated_stay_duration = waypoints[i].estimated_stay_duration
      ]_vars

C10_Witness ==
    /\ pc = "returned"
    /\ path = "solver"
    /\ N = 3
    /\ \A i \in Nodes : waypoints[i].order >= 1 /\ waypoints[i].departure_time > 0
    /\ \E i \in Nodes : waypoints[i].estimated_stay_duration = 0

\* C11: an end_waypoint_id that is the id of no supplied stop is rejected: with
\* two or more stops no tour is started (neither the solver's nor the
\* fallback's) and no ordering is returned.
C11_UnknownEndRejected ==
    (N >= 2 /\ constraints.end_waypoint_id # 0 /\ FixedEnd = 0) =>
        /\ path = "none"
        /\ result = <<>>

\* no field of any stop has been written
Unscheduled ==
    \A i \in Nodes :
        /\ waypoints[i].order = 0
        /\ waypoints[i].arrival_time = 0
        /\ waypoints[i].departure_time = 0

\* C12: when the matrix is not (N+1)x(N+1), solve_tsp takes none of its paths
\* (it returns no ordering, empty or not) and has written no stop field.
C12_ShapeRejected ==
    MatrixDim # N + 1 =>
        /\ path = "none"
        /\ result = <<>>
        /\ Unscheduled

\* C19: called with no stop, solve_tsp returns the empty list whatever the
\* matrix and the constraints are; nothing is written (there is no stop, and
\* the trip row is as it was) and the total computed over the empty list is 0.
C19_ZeroStops ==
    (N = 0 /\ Returned) =>
        /\ path = "empty"
        /\ result = <<>>
        /\ waypoints = <<>>
        /\ trip = [status |-> "draft", total_time_minutes |-> 0]
        /\ response = 0
        /\ TotalMinutes(waypoints, result) = 0

C19_Witness ==
    /\ N = 0
    /\ pc = "returned"
    /\ path = "empty"
    /\ MatrixDim = 3
    /\ distance_matrix[1][2] = 2 * TravelStep
    /\ constraints.end_waypoint_id = 1
    /\ result = <<>>

\* the departure the schedule projects for the k-th returned stop: the start
\* time plus every travel and every stay up to it (k = 0: the start time)
RECURSIVE ProjectedDeparture(_)
ProjectedDeparture(k) ==
    IF k = 0 THEN constraints.start_time
    ELSE ProjectedDeparture(k - 1)
         + distance_matrix[IF k = 1 THEN 0 ELSE result[k - 1]][result[k]]
         + StaySeconds(waypoints[result[k]])

\* the single-stop path projects no travel
ProjectedFinish ==
    IF path = "single"
    THEN constraints.start_time + StaySeconds(waypoints[1])
    ELSE ProjectedDeparture(Len(result))

\* C15: on the fallback path and on the single-stop path, a schedule whose last
\* departure lies after constraints.end_time is returned as it is: every stop
\* is in it, the last departure is the projected one (nothing is cut off), and
\* optimize_trip answers 200 with the trip optimized.
C15_OverrunAccepted ==
    (Returned /\ path \in {"fallback", "single"}
              /\ ProjectedFinish > constraints.end_time) =>
        /\ CompleteTour
        /\ Departure(N) = ProjectedFinish
        /\ pc = "responded" => (response = 200 /\ trip.status = "optimized")

C15_Witness ==
    /\ pc = "responded"
    /\ path = "fallback"
    /\ N = 3
    /\ Len(result) = 3
    /\ constraints.end_time = 36000
    /\ Arrival(3) > constraints.end_time
    /\ Departure(3) = ProjectedFinish
    /\ response = 200

\* C18: the k-th element of every returned list has order k (so the orders are
\* 1..N, increasing along the list), on the solver path with or without a
\* fixed end, on the single-stop path and on the fallback path.
C18_OrderIsPosition ==
    Returned => \A k \in 1..Len(result) : waypoints[result[k]].order = k

C18_Witness ==
    /\ pc = "returned"
    /\ path = "solver"
    /\ N = 3
    /\ end_node_index = 1
    /\ result = <<3, 2, 1>>
    /\ waypoints[3].order = 1
    /\ waypoints[2].order = 2
    /\ waypoints[1].order = 3

\* the line scenario: stops A, B, C (nodes 1, 2, 3) at 10, 20 and 30 seconds
\* from the start, every stay 0, from 09:00 to 18:00
LineScenario ==
    /\ N = 3
    /\ distance_matrix = LineMatrix(3)
    /\ \A i \in Nodes : waypoints[i].estimated_stay_duration = 0
    /\ constraints.start_time = 32400
    /\ constraints.end_time = 64800

\* C16: on the line scenario without a fixed end the returned order is A, B, C
\* on the fallback path and on the solver path, and the last departure is 30
\* seconds after the start.
C16_LineFreeEnd ==
    (LineScenario /\ constraints.end_waypoint_id = 0 /\ Returned) =>
        /\ result = <<1, 2, 3>>
        /\ Departure(3) - constraints.start_time = 30

SameStays ==
    /\ previous # <<>>
    /\ \A i \in Nodes : waypoints[i].estimated_stay_duration
                          = previous.waypoints[i].estimated_stay_duration

C14_OrderIgnoresStays ==
    (previous # <<>> /\ Returned /\ previous.forced /\ SolverForced) =>
        result = previous.result

\* C14 as the code has it: the fallback's order is the same whatever the stays
\* are; on the solver path the stays are no part of the minimised travel
\* cost, which is the same in both calls when every route fits the time
\* dimension in both, but they decide which routes fit.
C14_StaysOnlyThroughBudget ==
    (previous # <<>> /\ Returned) =>
        /\ (path = "fallback" /\ previous.path = "fallback") =>
               result = previous.result
        /\ (path = "solver" /\ previous.path = "solver"
                /\ previous.all_feasible /\ AllFeasible) =>
               ArcCost(solution, end_node_index) = previous.cost

C14_Witness ==
    /\ previous # <<>>
    /\ ~SameStays
    /\ pc = "returned"
    /\ N = 3
    /\ path = "fallback"
    /\ previous.path = "fallback"
    /\ result = <<2, 3, 1>>

\* the fallback's order as a function of the call's own arguments: nearest
\* unvisited stop first, left stops to go, the fixed end last
RECURSIVE GreedyFrom(_, _, _)
GreedyFrom(vis, cur, left) ==
    LET best_idx == NearestUnvisited(vis, cur)
    IN  IF left = 0 \/ best_idx = 0 THEN <<>>
        ELSE <<best_idx>> \o GreedyFrom([vis EXCEPT ![best_idx] = TRUE], best_idx, left - 1)

GreedyOrder ==
    LET tour == GreedyFrom([i \in Nodes |-> i = FixedEnd], 0, NumToVisit(waypoints, FixedEnd))
    IN  IF FixedEnd # 0 THEN Append(tour, FixedEnd) ELSE tour

\* the returned list and schedule are those of a call that runs alone on the
\* same arguments: the fallback's order, or a feasible route of least arc cost
\* as the solver returns for them, every stop scheduled along the call's own matrix from its own start
AsAlone ==
    Returned =>
        /\ CompleteTour
        /\ path = "fallback" => result = GreedyOrder
        /\ path = "solver" =>
              LET r == <<0>> \o (IF FixedEnd # 0 THEN SubSeq(result, 1, N - 1) ELSE result)
              IN  /\ Feasible(r, FixedEnd)
                  /\ \A q \in Routes(FixedEnd) :
                        Feasible(q, FixedEnd) => ArcCost(r, FixedEnd) <= ArcCost(q, FixedEnd)
        /\ \A k \in 1..Len(result) :
              /\ waypoints[result[k]].order = k
              /\ Departure(k) = IF path = "single" THEN ProjectedFinish
                                                   ELSE ProjectedDeparture(k)
              /\ Arrival(k) = Departure(k) - StaySeconds(waypoints[result[k]])

\* C20: two interleaved calls of solve_tsp on separate stop lists do not
\* disturb each other: what a call has returned is always what it returns when
\* it runs alone, and a step of one call leaves the stops and the result of
\* the other as they are (at a switch the two calls change places, intact).
C20_Isolation ==
    /\ []AsAlone
    /\ [][\/ /\ other'.waypoints = other.waypoints
             /\ other'.result = other.result
          \/ /\ other'.waypoints = waypoints
             /\ other'.result = result
             /\ waypoints' = other.waypoints
             /\ result' = other.result]_vars

\* one call has returned while the other is suspended inside its extraction
\* loop, one stop written
C20_Witness ==
    /\ pc = "returned"
    /\ path = "fallback"
    /\ N = 3
    /\ result = <<2, 3, 1>>
    /\ other.pc = "extract"
    /\ other.index = 3
    /\ other.waypoints[1].order = 1
    /\ other.waypoints[2].order = 0

\* C22: the waypoint a pass of the fallback's loop selects is one that has not
\* been visited and is not the fixed end, no other such waypoint is nearer to
\* the current node, and of those equally near it is the first in the list;
\* the fixed end is never selected in the loop.
C22_GreedySelection ==
    [][(pc = "greedy_loop" /\ pc' = "greedy_loop" /\ ordered' # ordered) =>
          LET s == ordered'[Len(ordered')]
              candidates == {i \in Nodes : ~InSeq(i, ordered) /\ i # end_idx}
          IN  /\ ordered' = Append(ordered, s)
              /\ s \in candidates
              /\ \A j \in candidates :
                    /\ distance_matrix[current_node][s] <= distance_matrix[current_node][j]
                    /\ distance_matrix[current_node][s] = distance_matrix[current_node][j]
                          => s <= j]_vars

\* the loop has passed over the fixed end, the nearest waypoint of all, and
\* has taken the nearer of the two others
C22_Witness ==
    /\ pc = "greedy_loop"
    /\ N = 3
    /\ end_idx = 1
    /\ ordered = <<3>>
    /\ distance_matrix[0][1] < distance_matrix[0][3]
    /\ distance_matrix[0][3] < distance_matrix[0][2]

\* C23: the fallback's loop is bounded and never cut short. A pass either
\* returns or moves the loop counter up by one, the counter never exceeds
\* num_to_visit + 1, a pass is always possible, and as long as passes are due
\* there is an unvisited waypoint (best_idx == -1 does not occur); the
\* fallback returns after exactly num_to_visit selections, with all N stops.
C23_FallbackBounded ==
    /\ [](pc = "greedy_loop" =>
            /\ order \in 1..(NumToVisit(waypoints, end_idx) + 1)
            /\ Len(ordered) = order - 1
            /\ order <= NumToVisit(waypoints, end_idx) =>
                   NearestUnvisited(visited, current_node) # 0
            /\ ENABLED (greedy_fallback_step \/ greedy_fallback_end))
    /\ []((Returned /\ path = "fallback") =>
            /\ order = NumToVisit(waypoints, end_idx) + 1
            /\ NumToVisit(waypoints, end_idx) = N - (IF FixedEnd # 0 THEN 1 ELSE 0)
            /\ Len(result) = N)
    /\ [][pc = "greedy_loop" => (pc' = "returned" \/ order' = order + 1)]_vars

C23_Witness ==
    /\ pc = "returned"
    /\ path = "fallback"
    /\ N = 3
    /\ end_idx = 2
    /\ order = 3
    /\ result = <<3, 1, 2>>

\* every returned stop carries its position as order and the arrival and
\* departure the start time, the matrix and the stays project along the list
ScheduledAlong ==
    \A k \in 1..Len(result) :
        /\ waypoints[result[k]].order = k
        /\ Departure(k) = ProjectedDeparture(k)
        /\ Arrival(k) = Departure(k) - StaySeconds(waypoints[result[k]])

\* C24: when the solver has no solution, solve_tsp returns what _greedy_fallback
\* returns for the same arguments: the fallback starts on stops nothing has
\* been written to and with no local of its own set, it works with the fixed
\* end solve_tsp found for end_waypoint_id, and the list and schedule returned
\* are the fallback's for these stops, matrix, constraints and end.
C24_FallbackResult ==
    /\ pc = "greedy_fallback" =>
          /\ path = "fallback"
          /\ Unscheduled
          /\ solution = <<>> /\ ordered_waypoints = <<>> /\ result = <<>>
          /\ ordered = <<>> /\ visited = <<>> /\ current_time = 0
    /\ pc = "greedy_loop" => end_idx = end_node_index
    /\ (Returned /\ path = "fallback") =>
          /\ end_idx = FixedEnd
          /\ result = GreedyOrder
          /\ ScheduledAlong

C24_Witness ==
    /\ pc = "returned"
    /\ path = "fallback"
    /\ N = 3
    /\ end_node_index = 3
    /\ end_idx = 3
    /\ result = <<2, 1, 3>>
    /\ result = GreedyOrder

\* C25: the timestamps are those of the ordering, whichever path wrote them:
\* for two or more stops the solver's extraction (its append of the fixed end
\* included) and the fallback both write the schedule projected along the
\* returned list, and a call that returns by one path the list an earlier call
\* on the same input returned by the other path writes the same times.
C25_TimesFollowOrder ==
    (Returned /\ N >= 2 /\ path \in {"solver", "fallback"}) =>
        /\ ScheduledAlong
        /\ (SameStays /\ previous.path \in {"solver", "fallback"}
                      /\ result = previous.result) =>
               waypoints = previous.waypoints

\* the solver's route ends at the fixed end and is the list the fallback
\* returned in the call before
C25_Witness ==
    /\ SameStays
    /\ pc = "returned"
    /\ N = 3
    /\ FixedEnd = 1
    /\ previous.path = "fallback"
    /\ path = "solver"
    /\ result = <<3, 2, 1>>
    /\ result = previous.result
    /\ waypoints = previous.waypoints
    /\ Arrival(3) > Departure(2)

\* C26: the schedule of a solver solution without a fixed end stays within the
\* budget, its last departure is at most constraints.end_time; a schedule
\* whose last departure is later comes from the fallback, from the single-stop
\* branch or from a solver route with a fixed end.
C26_SolverWithinBudget ==
    /\ (Returned /\ path = "solver" /\ end_node_index = 0) =>
           Departure(N) <= constraints.end_time
    /\ (Returned /\ result # <<>> /\ Departure(Len(result)) > constraints.end_time) =>
           \/ path \in {"fallback", "single"}
           \/ path = "solver" /\ end_node_index # 0

\* a free-end solver schedule under a budget that not every route fits
C26_Witness ==
    /\ pc = "returned"
    /\ path = "solver"
    /\ N = 3
    /\ end_node_index = 0
    /\ FeasibleRoutes(0) # Routes(0)
    /\ Arrival(1) > constraints.start_time
    /\ Departure(3) <= constraints.end_time

\* ------------------------------------------------------------- the request
\* POST /trip/optimize from the request body on. FastAPI builds the
\* OptimizationRequest, and with it the TripConstraints, before optimize_trip
\* runs; at pc = "request" the variable constraints holds the body's values.

\* a start_time of the body that is no datetime
Unparsable == 0 - 1

RequestStarts == StartTimes \cup {Unparsable}

\* end_time of the body: an hour before the start, the start itself, or later
RequestEnds == {st + d : st \in StartTimes, d \in {0 - 3600, 0} \cup Budgets}

\* variant: only an end_time before start_time is refused (v < start_time)
end_after_start_strictly_before(v, values) ==
    ~("start_time" \in DOMAIN values /\ v < values.start_time)

\* @validator("end_time") end_after_start(cls, v, values): TRUE when it returns
\* v, FALSE when it raises ValueError. values holds the fields validated before
\* end_time that passed; start_time is missing from it when it did not parse
end_after_start(v, values) ==
    ~("start_time" \in DOMAIN values /\ v <= values.start_time)

\* TripConstraints(**body): the fields in their order of declaration; the
\* object exists only if no field reported an error
TripConstraints(body) ==
    LET values == IF body.start_time = Unparsable
                  THEN <<>>
                  ELSE [start_time |-> body.start_time]
    IN  /\ "start_time" \in DOMAIN values
        /\ end_after_start(body.end_time, values)

\* the body is validated: a body that fails is answered 422 by the framework
\* and optimize_trip does not run
TripConstraints_init ==
    /\ pc = "request"
    /\ IF TripConstraints(constraints)
       THEN /\ pc' = "call"
            /\ UNCHANGED response
       ELSE /\ pc' = "responded"
            /\ response' = 422
    /\ UNCHANGED <<waypoints, path, result, current_time, inputs, solver_locals,
                   fallback_locals, trip, committed>>

\* get_distance_matrix, solve_tsp, the update of the trip or db.commit() raises:
\* `except Exception` answers 500. The session is closed by get_db without a
\* commit, so what solve_tsp wrote onto the waypoints so far is dropped
optimize_trip_error ==
    /\ pc \in {"call", "extract", "greedy_fallback", "greedy_loop", "returned"}
    /\ N >= 2
    /\ response' = 500
    /\ pc' = "responded"
    /\ UNCHANGED <<waypoints, path, result, current_time, inputs, solver_locals,
                   fallback_locals, trip, committed>>

\* solve_tsp returned a route, the trip is updated and db.commit() is done;
\* then building the response raises (a reload of the attributes the commit
\* expired, generate_link, the validation of OptimizationResponse): the same
\* `except Exception` answers 500
optimize_trip_response_error ==
    /\ pc = "returned"
    /\ N >= 2
    /\ result # <<>>
    /\ trip' = [status |-> "optimized",
                total_time_minutes |-> TotalMinutes(waypoints, result)]
    /\ committed' = [trip |-> trip', waypoints |-> waypoints]
    /\ response' = 500
    /\ pc' = "responded"
    /\ UNCHANGED <<waypoints, path, result, current_time, inputs, solver_locals,
                   fallback_locals>>

NextRequest ==
    \/ TripConstraints_init
    \/ solve_tsp
    \/ optimize_trip_too_few
    \/ optimize_trip_commit
    \/ optimize_trip_error
    \/ optimize_trip_response_error

\* every body: any number of stops with one stay, a matrix of the seeded
\* family, a start_time that parses or does not, an end_time before, at or
\* after it
InitRequest ==
    /\ \E n \in 0..MaxStops, stay \in Dwells :
        /\ waypoints = [i \in 1..n |-> Waypoint(i, stay)]
        /\ \E a \in 0..MaxTravel, b \in 0..MaxTravel, c \in 0..MaxTravel :
             distance_matrix = MatrixOf(n, a, b, c)
        /\ \E st \in RequestStarts, et \in RequestEnds, e \in EndIds(n) :
             constraints = [start_time |-> st, end_time |-> et, end_waypoint_id |-> e]
    /\ pc = "request"
    /\ path = "none"
    /\ solution = <<>>
    /\ end_node_index = 0
    /\ index = 0
    /\ route_order = 0
    /\ current_time = 0
    /\ ordered_waypoints = <<>>
    /\ end_idx = 0
    /\ visited = <<>>
    /\ ordered = <<>>
    /\ current_node = 0
    /\ order = 0
    /\ result = <<>>
    /\ trip = [status |-> "draft", total_time_minutes |-> 0]
    /\ response = 0
    /\ committed = [trip |-> trip, waypoints |-> waypoints]
    /\ job = <<>>
    /\ task = NoTask
    /\ previous = <<>>
    /\ other = <<>>

SpecRequest == InitRequest /\ [][NextRequest]_vars

\* C21: a body whose end_time is not after its start_time never becomes a
\* TripConstraints: it is answered 422 and solve_tsp does not run on it; every
\* constraints value solve_tsp runs on has end_time strictly after start_time.
C21_EndAfterStart ==
    /\ (pc # "request" /\ constraints.end_time <= constraints.start_time) =>
            /\ pc = "responded"
            /\ response = 422
            /\ path = "none"
            /\ Unscheduled
    /\ (pc \in {"call", "extract", "greedy_fallback", "greedy_loop", "returned"}
            \/ path # "none") =>
            /\ constraints.start_time # Unparsable
            /\ constraints.end_time > constraints.start_time

\* a body of two stops with end_time = start_time was refused
C21_Witness ==
    /\ pc = "responded"
    /\ response = 422
    /\ N = 2
    /\ constraints.start_time \in StartTimes
    /\ constraints.end_time = constraints.start_time
    /\ path = "none"

\* C27: whenever optimize_trip has answered 400 or 500 the database holds the
\* trip as it was: status not OPTIMIZED, and no order, arrival_time or
\* departure_time written by solve_tsp on any waypoint.
C27_ErrorLeavesTrip ==
    response \in {400, 500} =>
        /\ committed.trip = [status |-> "draft", total_time_minutes |-> 0]
        /\ \A i \in Nodes :
            /\ committed.waypoints[i].order = 0
            /\ committed.waypoints[i].arrival_time = 0
            /\ committed.waypoints[i].departure_time = 0

\* ------------------------------------------------------------- image analysis
\* POST /trip/upload and its background task process_images_background.
\* job is the row as committed, which is what GET /trip/{job_id}/status reads
\* through a session of its own. progress is held in tenths (0.6 is 6, 1.0 is
\* 10); an unset error_message (None) is "".

MaxFiles == 3
MaxCandidates == 4

\* if len(files) > 50
MaxUpload == 50

\* numbers of uploaded files: none, a few, one more than is allowed
FileCounts == 0..MaxFiles \cup {MaxUpload + 1}

PROCESSING_TIMEOUT == 40

\* time.time() - start_time when phase 3 begins, in seconds
ElapsedSeconds == {1, 26, 36, 39}

Min(a, b) == IF a <= b THEN a ELSE b

\* AnalysisJob(user_id, status="processing", total_images=len(files)) once
\* added, committed and refreshed: the other columns hold their defaults
AnalysisJob(files) ==
    [status |-> "processing", progress |-> 0, error_message |-> "",
     total_images |-> files, processed_images |-> 0, candidates |-> <<>>]

\* an exception leaves the body of the outer try
Raise(kind) == [task EXCEPT !.pc = "except", !.raised = kind]

optimizer_vars ==
    <<waypoints, distance_matrix, constraints, pc, path, result, current_time,
      solver_locals, fallback_locals, trip_vars, previous, other>>

\* upload_images: no file or more than 50 files is answered 400; otherwise
\* the job row is created and the background task scheduled with the images
upload_images ==
    /\ task.pc = "idle"
    /\ \E files \in FileCounts :
         IF files = 0 \/ files > MaxUpload
         THEN /\ task' = [task EXCEPT !.pc = "rejected", !.response = 400]
              /\ UNCHANGED job
         ELSE /\ job' = AnalysisJob(files)
              /\ task' = [task EXCEPT !.pc = "scheduled", !.response = 200,
                                      !.image_bytes_list = files]
    /\ UNCHANGED optimizer_vars

\* the task starts: it loads the job, returns if there is none, writes
\* total_images and processed_images and commits. The query or the commit
\* may raise
process_images_begin ==
    /\ task.pc = "scheduled"
    /\ \E outcome \in {"ok", "database"} :
         IF outcome = "database"
         THEN /\ task' = Raise("database")
              /\ UNCHANGED job
         ELSE IF job = <<>>
         THEN /\ task' = [task EXCEPT !.pc = "done"]
              /\ UNCHANGED job
         ELSE /\ job' = [job EXCEPT !.total_images = task.image_bytes_list,
                                    !.processed_images = 0]
              /\ task' = [task EXCEPT !.pc = "phase1"]
    /\ UNCHANGED optimizer_vars

\* phase 1: analyze_images_batch_async under wait_for(timeout=25.0). A result
\* gives the candidates and the failed images; asyncio.TimeoutError is caught
\* (no candidate, every image failed); any other exception leaves the try.
\* Then processed_images and progress = 0.6 are committed
process_images_phase1 ==
    /\ task.pc = "phase1"
    /\ \E outcome \in {"result", "timeout", "service", "database"},
          raw \in 0..MaxCandidates, failed \in 0..task.image_bytes_list :
         /\ outcome = "timeout" => (raw = 0 /\ failed = task.image_bytes_list)
         /\ outcome = "service" => (raw = 0 /\ failed = 0)
         /\ IF outcome = "service"
            THEN /\ task' = Raise("service")
                 /\ UNCHANGED job
            ELSE IF outcome = "database"
            THEN /\ task' = [Raise("database") EXCEPT !.raw_candidates = raw,
                                                      !.failed_images = failed]
                 /\ UNCHANGED job
            ELSE /\ job' = [job EXCEPT !.processed_images = task.image_bytes_list,
                                       !.progress = 6]
                 /\ task' = [task EXCEPT !.pc = "phase2", !.raw_candidates = raw,
                                         !.failed_images = failed]
    /\ UNCHANGED optimizer_vars

\* phase 2: resolve_duplicates and filter_by_confidence keep some of the
\* candidates; progress = 0.7 is committed
process_images_phase2 ==
    /\ task.pc = "phase2"
    /\ \E outcome \in {"ok", "service", "database"},
          kept \in 0..task.raw_candidates :
         /\ outcome = "service" => kept = 0
         /\ IF outcome = "service"
            THEN /\ task' = Raise("service")
                 /\ UNCHANGED job
            ELSE IF outcome = "database"
            THEN /\ task' = [Raise("database") EXCEPT !.filtered_candidates = kept]
                 /\ UNCHANGED job
            ELSE /\ job' = [job EXCEPT !.progress = 7]
                 /\ task' = [task EXCEPT !.pc = "phase3", !.filtered_candidates = kept]
    /\ UNCHANGED optimizer_vars

\* timeout=min(remaining_time - 2, 12.0)
GeocodeTimeout(remaining_time) == Min(remaining_time - 2, 12)

\* filtered_candidates[:3] when fewer than 5 seconds remain
Limited(filtered_candidates, remaining_time) ==
    IF remaining_time < 5 THEN Min(filtered_candidates, 3) ELSE filtered_candidates

\* job.candidates as stored on completion
Candidates(located, failed, images) ==
    [locations |-> located, failed_images |-> failed,
     stats |-> [total_images |-> images, successful_images |-> images - failed,
                failed_count |-> failed, locations_found |-> located]]

\* phase 3 and completion: with any candidate left, geocode_batch_async under
\* wait_for; a timeout that is not positive expires at once. A result gives a
\* location for each candidate that has a primary match; asyncio.TimeoutError
\* is caught with all_candidates still empty; any other exception leaves the
\* try. Then status "completed", progress 1.0 and the candidates are committed
process_images_phase3 ==
    /\ task.pc = "phase3"
    /\ \E elapsed \in ElapsedSeconds :
        LET remaining_time == PROCESSING_TIMEOUT - elapsed
            limited == Limited(task.filtered_candidates, remaining_time)
        IN  \E outcome \in {"result", "timeout", "service", "database"},
               located \in 0..limited :
              /\ limited = 0 => outcome \in {"result", "database"}
              /\ (limited > 0 /\ GeocodeTimeout(remaining_time) <= 0) =>
                     outcome \in {"timeout", "database"}
              /\ outcome \in {"timeout", "service"} => located = 0
              /\ IF outcome = "service"
                 THEN /\ task' = [Raise("service") EXCEPT !.filtered_candidates = limited]
                      /\ UNCHANGED job
                 ELSE IF outcome = "database"
                 THEN /\ task' = [Raise("database") EXCEPT
                                      !.filtered_candidates = limited,
                                      !.all_candidates = located]
                      /\ UNCHANGED job
                 ELSE /\ job' = [job EXCEPT
                                   !.status = "completed",
                                   !.progress = 10,
                                   !.candidates = Candidates(located, task.failed_images,
                                                             task.image_bytes_list)]
                      /\ task' = [task EXCEPT !.pc = "done",
                                              !.filtered_candidates = limited,
                                              !.all_candidates = located]
    /\ UNCHANGED optimizer_vars

\* variant: the handler also puts progress back to 0
process_images_failed_resetting_progress ==
    /\ task.pc = "except"
    /\ \E outcome \in {"ok", "database"} :
         /\ task.raised = "database" => outcome = "database"
         /\ IF outcome = "database"
            THEN /\ task' = [task EXCEPT !.pc = "crashed"]
                 /\ UNCHANGED job
            ELSE /\ job' = [job EXCEPT !.status = "failed", !.error_message = task.raised,
                                       !.progress = 0]
                 /\ task' = [task EXCEPT !.pc = "done"]
    /\ UNCHANGED optimizer_vars

\* except Exception: the job is loaded again on the same session and, if there
\* is one, status "failed" and the error message are committed. Nothing rolls
\* the session back: after an exception of the database the session refuses
\* further statements, so the query raises and the exception leaves the task;
\* after any other exception the query or the commit may still raise
process_images_failed ==
    /\ task.pc = "except"
    /\ \E outcome \in {"ok", "database"} :
         /\ task.raised = "database" => outcome = "database"
         /\ IF outcome = "database"
            THEN /\ task' = [task EXCEPT !.pc = "crashed"]
                 /\ UNCHANGED job
            ELSE IF job = <<>>
            THEN /\ task' = [task EXCEPT !.pc = "done"]
                 /\ UNCHANGED job
            ELSE /\ job' = [job EXCEPT !.status = "failed", !.error_message = task.raised]
                 /\ task' = [task EXCEPT !.pc = "done"]
    /\ UNCHANGED optimizer_vars

process_images_background ==
    \/ process_images_begin
    \/ process_images_phase1
    \/ process_images_phase2
    \/ process_images_phase3
    \/ process_images_failed

NextJobs ==
    \/ upload_images
    \/ process_images_background

\* an upload is about to be made; no trip is being optimised
InitJobs ==
    /\ waypoints = <<>>
    /\ distance_matrix = MatrixOf(0, 0, 0, 0)
    /\ \E st \in StartTimes, budget \in Budgets :
         constraints = [start_time |-> st, end_time |-> st + budget,
                        end_waypoint_id |-> 0]
    /\ Called

SpecJobs == InitJobs /\ [][NextJobs]_vars

\* C28: once the job row exists its progress is 0, 0.6, 0.7 or 1.0 and only
\* moves forward along 0 -> 0.6 -> 0.7 -> 1.0; progress is 1.0 only with status
\* "completed"; the status is "processing", "completed" or "failed", and a job
\* that is completed or failed keeps its status.
C28_JobProgress ==
    /\ [](job # <<>> =>
            /\ job.progress \in {0, 6, 7, 10}
            /\ job.status \in {"processing", "completed", "failed"}
            /\ job.progress = 10 => job.status = "completed")
    /\ [][job # <<>> =>
            /\ job' # <<>>
            /\ job'.progress >= job.progress
            /\ job'.progress # job.progress =>
                  <<job.progress, job'.progress>> \in {<<0, 6>>, <<6, 7>>, <<7, 10>>}
            /\ job.status # "processing" => job'.status = job.status
            /\ job'.status # job.status => job'.status \in {"completed", "failed"}]_vars

\* a job failed in phase 3, after progress 0.7 was committed: it keeps 0.7
C28_Witness ==
    /\ task.pc = "done"
    /\ job # <<>>
    /\ job.status = "failed"
    /\ job.error_message = "service"
    /\ job.progress = 7
    /\ task.image_bytes_list = 3
    /\ task.filtered_candidates = 2

\* C29: once the background task of a job whose row exists has ended, by a
\* return or by an exception, the job is "completed" or "failed".
C29_JobLeavesProcessing ==
    (task.pc \in {"done", "crashed"} /\ job # <<>>) =>
        job.status \in {"completed", "failed"}

====
